---- MODULE Spec2Model ----
(***************************************************************************)
(* Model of the IBM Cloud install-config validation of the installer:      *)
(*   - pkg/types/ibmcloud/validation: ValidatePlatform, ValidateVPCConfig, *)
(*     ValidateMachinePool (static checks of the platform fragment);       *)
(*   - pkg/asset/installconfig/ibmcloud: Validate, validateResourceGroup   *)
(*     (checks against the remote account) and the lookups of the client   *)
(*     (resource groups, CIS instance, DNS zone, image, VPC, subnet).      *)
(* Strings are modelled by TLA+ strings, Go slices by sequences, a nil     *)
(* error by the value nil.  A field.Error is the record                    *)
(* [Type, Field, BadValue, Detail]; a field.Path is the sequence of its    *)
(* segments; a Detail is a sequence of strings (message, then arguments).  *)
(***************************************************************************)
EXTENDS Naturals, Sequences, FiniteSets, TLC

\* ------------------------------------------------------------------ bounds
MaxSubnets == 2
MaxGroups == 2
MaxRuns == 2
MaxZones == 2
MaxRegions == 2

\* --------------------------------------------------------------- utilities
nil == "<nil>"

SeqsUpTo(S, n) == UNION {[1..k -> S] : k \in 0..n}

Range(s) == {s[i] : i \in 1..Len(s)}

\* ------------------------------------------------- field error model (k8s)
Child(path, name) == Append(path, name)

Required(path, detail) ==
    [Type |-> "Required", Field |-> path, BadValue |-> "", Detail |-> <<detail>>]

Invalid(path, value, detail) ==
    [Type |-> "Invalid", Field |-> path, BadValue |-> value, Detail |-> <<detail>>]

NotSupported(path, value, validValues) ==
    [Type |-> "NotSupported", Field |-> path, BadValue |-> value,
     Detail |-> <<"supported values">> \o validValues]

InternalError(path, err) ==
    [Type |-> "InternalError", Field |-> path, BadValue |-> nil, Detail |-> <<err>>]

\* ToAggregate: nil for an empty list, otherwise the aggregate of the
\* errors, each distinct message once, in list order.
RECURSIVE Dedup(_, _)
Dedup(list, seen) ==
    IF list = <<>> THEN <<>>
    ELSE IF Head(list) \in seen THEN Dedup(Tail(list), seen)
    ELSE <<Head(list)>> \o Dedup(Tail(list), seen \cup {Head(list)})

ToAggregate_FirstOnly(list) ==
    IF Len(list) = 0 THEN [isNil |-> TRUE, Errors |-> <<>>]
    ELSE [isNil |-> FALSE, Errors |-> <<Head(list)>>]

ToAggregate(list) ==
    IF Len(list) = 0 THEN [isNil |-> TRUE, Errors |-> <<>>]
    ELSE [isNil |-> FALSE, Errors |-> Dedup(list, {})]

\* ------------------------------------------------------ program constants
\* Keys of the Regions map.
Regions ==
    {"us-south", "us-east", "eu-gb", "eu-de", "jp-tok", "jp-osa", "au-syd", "ca-tor"}

validCRN == "crn:v1:bluemix:public:internet-svcs:us-south:a/account:instance::"
badScopeCRN == "crn:v1:bluemix:public:internet-svcs:us-south:a/b/c:instance::"

\* strings.Split over the strings of the model.
Split(s, sep) ==
    IF sep = ":" THEN
        CASE s = validCRN ->
                <<"crn", "v1", "bluemix", "public", "internet-svcs", "us-south",
                  "a/account", "instance", "", "">>
          [] s = badScopeCRN ->
                <<"crn", "v1", "bluemix", "public", "internet-svcs", "us-south",
                  "a/b/c", "instance", "", "">>
          [] s = "malformed:crn" -> <<"malformed", "crn">>
          [] OTHER -> <<s>>
    ELSE
        CASE s = "a/account" -> <<"a", "account">>
          [] s = "a/b/c" -> <<"a", "b", "c">>
          [] OTHER -> <<s>>

\* crn.Parse: the error it returns (nil when the string is a CRN).
crnParse(s) ==
    IF s = "" THEN nil
    ELSE LET segments == Split(s, ":") IN
         IF Len(segments) # 10 \/ segments[1] # "crn" THEN "malformed CRN"
         ELSE LET scopeSegments == segments[7] IN
              IF scopeSegments = "" \/ scopeSegments = "global" THEN nil
              ELSE IF Len(Split(scopeSegments, "/")) = 2 THEN nil
              ELSE "malformed scope in CRN"

\* ------------------------------------------------------------- input sets
RegionValues == {"", "us-south", "invalid"}
CRNValues == {"", validCRN, "malformed:crn", badScopeCRN}
ImageValues == {"", "valid-rhcos-image"}
ResourceGroupValues == {"", "rg-id-1", "Default", "not-found"}
VPCValues == {"", "valid-vpc"}
VPCResourceGroupValues == {"", "valid-vpc-resource-group"}
SubnetIDs == {"public-subnet-us-south-1-id", "subnet-invalid-zone"}
MachinePools == {[isNil |-> TRUE], [isNil |-> FALSE]}

Platforms ==
    [Region : RegionValues,
     CISInstanceCRN : CRNValues,
     ClusterOSImage : ImageValues,
     ResourceGroup : ResourceGroupValues,
     DefaultMachinePlatform : MachinePools,
     VPC : VPCValues,
     VPCResourceGroup : VPCResourceGroupValues,
     Subnets : SeqsUpTo(SubnetIDs, MaxSubnets)]

\* Machine pools that declare a type, and the valid platform with each of
\* the machine pools as its default machine pool.
TypedMachinePools ==
    [isNil : {FALSE}, Type : {"", "bx2-4x16", "not-a-type"}]

PoolPlatforms ==
    {[p EXCEPT !.DefaultMachinePlatform = mp] :
        p \in {q \in Platforms : /\ q.Region = "us-south"
                                  /\ q.CISInstanceCRN = validCRN
                                  /\ q.ClusterOSImage = "valid-rhcos-image"},
        mp \in TypedMachinePools}

validBaseDomain == "valid.base.domain"

InstallConfigs == [BaseDomain : {validBaseDomain}, IBMCloud : Platforms]

\* The account's resource groups as the management API lists them, and the
\* failure of the listing call (nil, a bmxerror, any other error).
GroupPool ==
    {[ID |-> "rg-id-1", Name |-> "Default"], [ID |-> "rg-id-2", Name |-> "Custom"]}

ListErrors == {"bmxerror", "transport"}

GroupListings ==
    [groups : SeqsUpTo(GroupPool, MaxGroups), listErr : {nil}]
        \cup [groups : {<<>>}, listErr : ListErrors]

\* What the other services of the account answer:
\*   instances      the CRNs the resource controller has an instance for
\*   zones, zonesErr   the DNS zones the CIS instance lists, or the failure
\*   regionErr      the failure of resolving the region by its name
\*   images, imagesErr the private images of the region, or the failure
\*   regions, regionsErr  the VPC regions in listing order, each with the
\*                  VPC names it lists or the failure of its listing
\*   subnetZone, subnetErr  the zone of each subnet, or the failure
\*   regionZones, regionZonesErr  the zones of the platform's region
validZone == [Name |-> validBaseDomain, Status |-> "active", Id |-> "valid-zone-id"]
pendingZone == [Name |-> validBaseDomain, Status |-> "pending", Id |-> "pending-zone-id"]
validImage == [Name |-> "valid-rhcos-image", Status |-> "available"]
vpcGroup == [ID |-> "valid-vpc-resource-group-id", Name |-> "valid-vpc-resource-group"]

SubnetZones ==
    [s \in SubnetIDs |-> IF s = "subnet-invalid-zone" THEN "invalid" ELSE "us-south-1"]

usSouthZones == <<"us-south-1", "us-south-2", "us-south-3">>

WithServices(g) ==
    [groups |-> g.groups, listErr |-> g.listErr,
     instances |-> {validCRN},
     zones |-> <<validZone>>, zonesErr |-> nil,
     regionErr |-> nil, images |-> <<validImage>>, imagesErr |-> nil,
     regions |-> <<[vpcs |-> <<"valid-vpc">>, err |-> nil]>>, regionsErr |-> nil,
     subnetZone |-> SubnetZones, subnetErr |-> nil,
     regionZones |-> usSouthZones, regionZonesErr |-> nil]

Remotes == {WithServices(g) : g \in GroupListings}

\* The configurations and remote states of the lookup specification: the
\* statically valid platform, every state of the services.
LookupConfigs ==
    [BaseDomain : {validBaseDomain, "notfound.base.domain"},
     IBMCloud : {p \in Platforms :
                    /\ p.Region = "us-south"
                    /\ p.CISInstanceCRN = validCRN
                    /\ p.ClusterOSImage = "valid-rhcos-image"
                    /\ p.ResourceGroup = ""}]

LookupRemotes ==
    [groups : {<<>>, <<vpcGroup>>}, listErr : {nil},
     instances : {{}, {validCRN}},
     zones : {<<>>, <<validZone>>, <<pendingZone>>}, zonesErr : {nil},
     regionErr : {nil}, images : {<<>>, <<validImage>>}, imagesErr : {nil},
     regions : {<<[vpcs |-> <<"valid-vpc">>, err |-> nil]>>,
                <<[vpcs |-> <<>>, err |-> nil]>>,
                <<[vpcs |-> <<>>, err |-> "transport"]>>},
     regionsErr : {nil},
     subnetZone : {SubnetZones}, subnetErr : {nil, "transport"},
     regionZones : {usSouthZones}, regionZonesErr : {nil}]
    \cup
    [groups : {<<>>}, listErr : {"transport"},
     instances : {{validCRN}},
     zones : {<<>>}, zonesErr : {"transport"},
     regionErr : {nil}, images : {<<>>}, imagesErr : {"transport"},
     regions : {<<>>}, regionsErr : {nil, "transport"},
     subnetZone : {SubnetZones}, subnetErr : {nil},
     regionZones : {usSouthZones}, regionZonesErr : {nil}]

\* The remote states of the client specification.  Each set varies the
\* answers of one service around ClientBase; findByNameEmpty is what the
\* management API answers to FindByName when no group has the name: an
\* error, or an empty list without error.
otherZone == [Name |-> "other.base.domain", Status |-> "active", Id |-> "other-zone-id"]
secondZone == [Name |-> validBaseDomain, Status |-> "active", Id |-> "second-zone-id"]
ZonePool == {validZone, pendingZone, otherZone, secondZone}

pendingImage == [Name |-> "valid-rhcos-image", Status |-> "pending"]

validVPCID == "valid-vpc-id"
RegionNames == <<"us-south", "eu-gb", "jp-tok", "au-syd">>

GetVPCAnswers ==
    {[vpc |-> validVPCID, err |-> nil], [vpc |-> nil, err |-> "VPC not found"],
     [vpc |-> nil, err |-> "transport"], [vpc |-> nil, err |-> nil]}

ListVpcsAnswers ==
    {[vpcs |-> <<>>, err |-> nil], [vpcs |-> <<"valid-vpc">>, err |-> nil],
     [vpcs |-> <<>>, err |-> "transport"]}

RegionLists ==
    UNION {{[k \in 1..n |-> [name |-> RegionNames[k], vpcs |-> <<>>, err |-> nil,
                              getVPC |-> a[k]]] : a \in [1..n -> GetVPCAnswers]}
           \cup {[k \in 1..n |-> [name |-> RegionNames[k], vpcs |-> a[k].vpcs,
                                    err |-> a[k].err,
                                    getVPC |-> [vpc |-> nil, err |-> "VPC not found"]]] :
                    a \in [1..n -> ListVpcsAnswers]} : n \in 0..MaxRegions}

ClientBase ==
    [groups |-> <<vpcGroup>>, listErr |-> nil, findByNameEmpty |-> "error",
     instances |-> {validCRN},
     zones |-> <<validZone>>, zonesErr |-> nil,
     regionErr |-> nil, images |-> <<validImage>>, imagesErr |-> nil,
     regions |-> <<>>, regionsErr |-> nil,
     subnetZone |-> SubnetZones, subnetErr |-> nil,
     regionZones |-> usSouthZones, regionZonesErr |-> nil]

ClientRemotes ==
    {[ClientBase EXCEPT !.zones = z] : z \in SeqsUpTo(ZonePool, MaxZones)}
    \cup {[ClientBase EXCEPT !.zonesErr = "transport", !.zones = <<>>]}
    \cup {[ClientBase EXCEPT !.groups = g.groups, !.listErr = g.listErr,
                             !.findByNameEmpty = f] :
            g \in GroupListings, f \in {"error", "empty"}}
    \cup {[ClientBase EXCEPT !.images = i] : i \in {<<>>, <<pendingImage>>,
                                                    <<pendingImage, validImage>>}}
    \cup {[ClientBase EXCEPT !.imagesErr = "transport", !.images = <<>>],
          [ClientBase EXCEPT !.regionErr = "transport", !.images = <<>>],
          [ClientBase EXCEPT !.subnetErr = "transport"],
          [ClientBase EXCEPT !.regionZonesErr = "transport"]}
    \cup {[ClientBase EXCEPT !.regions = l] : l \in RegionLists}
    \cup {[ClientBase EXCEPT !.regionsErr = "transport"]}

\* The remote states of the concurrent runs: ClientBase with the resource
\* groups varied and, per region endpoint, the private images listed there.
ImageListings ==
    {[r \in {"us-south", "eu-gb"} |-> <<validImage>>],
     [r \in {"us-south", "eu-gb"} |-> IF r = "us-south" THEN <<validImage>> ELSE <<>>],
     [r \in {"us-south", "eu-gb"} |->
         IF r = "us-south" THEN <<pendingImage>> ELSE <<validImage>>]}

RunsRemotes ==
    {[f \in DOMAIN ClientBase \cup {"imagesIn"} |->
         IF f = "imagesIn" THEN l
         ELSE IF f = "groups" THEN g.groups
         ELSE IF f = "listErr" THEN g.listErr
         ELSE IF f = "imagesErr" THEN e
         ELSE ClientBase[f]] :
        l \in ImageListings, g \in GroupListings, e \in {nil, "transport"}}

\* Orders in which the map iteration can have filled regionShortNames.
RegionOrders ==
    {<<"us-south", "us-east", "eu-gb", "eu-de", "jp-tok", "jp-osa", "au-syd", "ca-tor">>,
     <<"ca-tor", "au-syd", "jp-osa", "jp-tok", "eu-de", "eu-gb", "us-east", "us-south">>}

VARIABLES
    ic,                \* the install configuration handed to the validators
    remote,            \* the state of the remote account
    regionShortNames,  \* package variable, set once at package initialisation
    op,                \* the operation that ran last
    allErrs,           \* the field.ErrorList the operation built
    ret,               \* what Validate returned (the aggregate)
    calls,             \* the API calls the operation made, in order
    prev,              \* op, allErrs, ret and calls of the operation before
    runsLeft,          \* how many more operations this behaviour runs
    vpcAPI,            \* the vpcAPI of the Client: its service URL
    lookup,            \* the last call of a method of the Client and its result
    runs,              \* the concurrent runs on the Client, each with its position
    ctx                \* the context of the caller: "live" or "cancelled"

vars == <<ic, remote, regionShortNames, op, allErrs, ret, calls, prev, runsLeft,
          vpcAPI, lookup, runs, ctx>>

validationVars == <<op, allErrs, ret, calls, prev>>

\* ---------------------------------------------------------------- client
\* Client.GetResourceGroups
GetResourceGroups(r) ==
    IF r.listErr # nil THEN
        IF r.listErr = "bmxerror" THEN [groups |-> <<>>, err |-> "bmxerror description"]
        ELSE [groups |-> <<>>, err |-> r.listErr]
    ELSE [groups |-> r.groups, err |-> nil]

\* Client.GetCISInstance
GetCISInstance(r, crnstr) ==
    IF crnstr \in r.instances THEN [instance |-> crnstr, err |-> nil]
    ELSE [instance |-> nil, err |-> "failed to get cis instances"]

\* cisAPI.Zones().ListZones: the zones of the instance, or the failure.
ListZones(r, crn) ==
    IF r.zonesErr # nil THEN [zones |-> <<>>, err |-> r.zonesErr]
    ELSE IF crn \notin r.instances THEN [zones |-> <<>>, err |-> "instance not found"]
    ELSE [zones |-> r.zones, err |-> nil]

\* The index of the first element of a sequence that satisfies Test, 0 if none.
FirstIndex(seq, Test(_)) ==
    IF \E i \in 1..Len(seq) : Test(seq[i])
    THEN CHOOSE i \in 1..Len(seq) : Test(seq[i]) /\ \A j \in 1..(i - 1) : ~Test(seq[j])
    ELSE 0

GetZoneIDByName_IgnoresStatus(r, crn, name) ==
    LET res == ListZones(r, crn) IN
    IF res.err # nil THEN [zoneID |-> "", err |-> res.err, arg |-> ""]
    ELSE LET i == FirstIndex(res.zones, LAMBDA z : z.Name = name) IN
         IF i = 0 THEN [zoneID |-> "", err |-> "zone not found", arg |-> name]
         ELSE [zoneID |-> res.zones[i].Id, err |-> nil, arg |-> ""]

\* Client.GetZoneIDByName
GetZoneIDByName(r, crn, name) ==
    LET res == ListZones(r, crn) IN
    IF res.err # nil THEN [zoneID |-> "", err |-> res.err, arg |-> ""]
    ELSE IF Len(res.zones) = 0 THEN [zoneID |-> "", err |-> "zone not found", arg |-> name]
    ELSE LET i == FirstIndex(res.zones, LAMBDA z : z.Name = name /\ z.Status = "active")
             zoneID == IF i = 0 THEN "" ELSE res.zones[i].Id
         IN
         IF zoneID = "" THEN [zoneID |-> "", err |-> "zone not found", arg |-> name]
         ELSE [zoneID |-> zoneID, err |-> nil, arg |-> ""]

GetResourceGroup_ErrAsNotFound(r, nameOrID) ==
    LET res == GetResourceGroups(r)
        i == FirstIndex(res.groups, LAMBDA rg : rg.ID = nameOrID \/ rg.Name = nameOrID)
    IN
    IF i # 0 THEN [group |-> res.groups[i].ID, err |-> nil, arg |-> ""]
    ELSE [group |-> nil, err |-> "Resource Group not found", arg |-> nameOrID]

\* Client.GetResourceGroup
GetResourceGroup(r, nameOrID) ==
    LET res == GetResourceGroups(r) IN
    IF res.err # nil THEN [group |-> nil, err |-> res.err, arg |-> ""]
    ELSE LET i == FirstIndex(res.groups, LAMBDA rg : rg.ID = nameOrID \/ rg.Name = nameOrID) IN
         IF i # 0 THEN [group |-> res.groups[i].ID, err |-> nil, arg |-> ""]
         ELSE [group |-> nil, err |-> "Resource Group not found", arg |-> nameOrID]

\* Client.GetCustomImages (getVPCRegionByName, listPrivateImagesForRegion)
\* urlSet: whether listPrivateImagesForRegion was reached and set the
\* service URL of the client to the endpoint of the region.
GetCustomImages(r, region) ==
    IF r.regionErr # nil THEN [images |-> <<>>, err |-> r.regionErr, urlSet |-> FALSE]
    ELSE IF r.imagesErr # nil THEN [images |-> <<>>, err |-> r.imagesErr, urlSet |-> TRUE]
    ELSE [images |-> SelectSeq(r.images, LAMBDA image : image.Status = "available"),
          err |-> nil, urlSet |-> TRUE]

\* Client.GetCustomImageByName
GetCustomImageByName(r, imageName, region) ==
    LET res == GetCustomImages(r, region) IN
    IF res.err # nil THEN [image |-> nil, err |-> res.err, arg |-> "", urlSet |-> res.urlSet]
    ELSE LET i == FirstIndex(res.images,
                             LAMBDA im : im.Name = imageName /\ im.Status = "available")
         IN
         IF i = 0
         THEN [image |-> nil, err |-> "image not found", arg |-> imageName, urlSet |-> TRUE]
         ELSE [image |-> res.images[i].Name, err |-> nil, arg |-> "", urlSet |-> TRUE]

\* Client.GetVPCByName, from region k of the listing on.  tried: the number
\* of regions whose endpoint the search set as the service URL of the client.
RECURSIVE VPCByNameFrom(_, _, _, _)
VPCByNameFrom(r, k, vpcName, resourceGroupID) ==
    IF k > Len(r.regions)
    THEN [vpc |-> nil, err |-> "vpc not found", arg |-> vpcName, tried |-> k - 1]
    ELSE IF r.regions[k].err # nil
    THEN [vpc |-> nil, err |-> r.regions[k].err, arg |-> "", tried |-> k]
    ELSE LET vpcs == IF resourceGroupID = vpcGroup.ID THEN r.regions[k].vpcs ELSE <<>> IN
         IF \E i \in 1..Len(vpcs) : vpcs[i] = vpcName
         THEN [vpc |-> vpcName, err |-> nil, arg |-> "", tried |-> k]
         ELSE VPCByNameFrom(r, k + 1, vpcName, resourceGroupID)

GetVPCByName(r, vpcName, resourceGroupID) ==
    IF r.regionsErr # nil
    THEN [vpc |-> nil, err |-> "failed to list vpc regions", arg |-> "", tried |-> 0]
    ELSE VPCByNameFrom(r, 1, vpcName, resourceGroupID)

\* Client.GetVPC, from region k of the listing on: the answer of region k to
\* GetVPC(vpcID) is r.regions[k].getVPC.
RECURSIVE GetVPCFrom(_, _, _)
GetVPCFrom_StopsAtNotFound(r, k, vpcID) ==
    IF k > Len(r.regions)
    THEN [vpc |-> nil, err |-> "vpc not found", arg |-> vpcID, tried |-> k - 1]
    ELSE LET got == r.regions[k].getVPC IN
         IF got.err # nil
         THEN IF got.err # "VPC not found"
              THEN [vpc |-> nil, err |-> got.err, arg |-> "", tried |-> k]
              ELSE [vpc |-> nil, err |-> "vpc not found", arg |-> vpcID, tried |-> k]
         ELSE IF got.vpc # nil
         THEN [vpc |-> got.vpc, err |-> nil, arg |-> "", tried |-> k]
         ELSE GetVPCFrom(r, k + 1, vpcID)

GetVPCFrom(r, k, vpcID) ==
    IF k > Len(r.regions)
    THEN [vpc |-> nil, err |-> "vpc not found", arg |-> vpcID, tried |-> k - 1]
    ELSE LET got == r.regions[k].getVPC IN
         IF got.err # nil
         THEN IF got.err # "VPC not found"
              THEN [vpc |-> nil, err |-> got.err, arg |-> "", tried |-> k]
              ELSE GetVPCFrom(r, k + 1, vpcID)
         ELSE IF got.vpc # nil
         THEN [vpc |-> got.vpc, err |-> nil, arg |-> "", tried |-> k]
         ELSE GetVPCFrom(r, k + 1, vpcID)

GetVPC(r, vpcID) ==
    IF r.regionsErr # nil
    THEN [vpc |-> nil, err |-> "failed to list vpc regions", arg |-> "", tried |-> 0]
    ELSE GetVPCFrom(r, 1, vpcID)

\* Client.GetResourceGroup of the version that asks the management API for
\* the group by name (FindByName) and returns &groups[0]: indexing an empty
\* list panics (index out of range).
GetResourceGroupFindByName(r, nameOrID) ==
    IF r.listErr # nil THEN
        IF r.listErr = "bmxerror"
        THEN [group |-> nil, err |-> "bmxerror description", arg |-> "", panic |-> FALSE]
        ELSE [group |-> nil, err |-> r.listErr, arg |-> "", panic |-> FALSE]
    ELSE LET groups == SelectSeq(r.groups, LAMBDA rg : rg.Name = nameOrID) IN
         IF Len(groups) = 0 /\ r.findByNameEmpty = "error"
         THEN [group |-> nil, err |-> "bmxerror description", arg |-> "", panic |-> FALSE]
         ELSE IF Len(groups) = 0
         THEN [group |-> nil, err |-> nil, arg |-> "", panic |-> TRUE]
         ELSE [group |-> groups[1].ID, err |-> nil, arg |-> "", panic |-> FALSE]

\* Client.loadCloudAPIs: the loaders in order; failing is the set of the
\* loaders that fail.  ran: the loaders that ran; err: the error returned.
apisToLoad ==
    <<"loadResourceManagementAPI", "loadResourceControllerAPI",
      "loadCloudInternetServicesAPI", "loadVPCV1API">>

RECURSIVE loadFrom(_, _)
loadFrom(k, failing) ==
    IF k > Len(apisToLoad) THEN [err |-> nil, ran |-> <<>>]
    ELSE IF apisToLoad[k] \in failing
    THEN [err |-> "failed to load", ran |-> <<apisToLoad[k]>>]
    ELSE LET rest == loadFrom(k + 1, failing) IN
         [err |-> rest.err, ran |-> <<apisToLoad[k]>> \o rest.ran]

loadCloudAPIs_NoBreak(failing) ==
    [err |-> IF apisToLoad[Len(apisToLoad)] \in failing THEN "failed to load" ELSE nil,
     ran |-> apisToLoad]

loadCloudAPIs(failing) == loadFrom(1, failing)

\* NewClient: the client (nil or the APIs it holds), the error and the
\* loaders that ran.
NewClient(sessionErr, failing) ==
    IF sessionErr # nil
    THEN [client |-> nil, err |-> "failed to get session", ran |-> <<>>]
    ELSE LET res == loadCloudAPIs(failing) IN
         IF res.err # nil
         THEN [client |-> nil, err |-> "failed to load IBM Cloud APIs", ran |-> res.ran]
         ELSE [client |-> "client", err |-> nil, ran |-> res.ran]

\* The service URL of the VPC API: fmt.Sprintf("%s/v1", *region.Endpoint).
Endpoint(regionName) == <<"https://", regionName, ".iaas.cloud.ibm.com">>
ServiceURL(endpoint) == endpoint \o <<"/v1">>
DefaultServiceURL == ServiceURL(Endpoint("us-south"))

\* Client.GetSubnet
GetSubnet(r, subnetID) ==
    IF r.subnetErr # nil THEN [zone |-> nil, err |-> r.subnetErr]
    ELSE [zone |-> r.subnetZone[subnetID], err |-> nil]

\* Client.GetVPCZonesForRegion
GetVPCZonesForRegion(r, region) ==
    IF r.regionZonesErr # nil THEN [zones |-> <<>>, err |-> r.regionZonesErr]
    ELSE [zones |-> r.regionZones, err |-> nil]

\* ---------------------------------------------- types/ibmcloud/validation
ValidateMachinePool_TypeRequired(p, defaultMachinePlatform, path) ==
    <<Required(Child(path, "type"), "type must be specified")>>

ValidateMachinePool(p, defaultMachinePlatform, path) == <<>>

vpcDetails == "if either one of the vpc or subnets fields is defined, they both must be defined"

ValidateVPCConfig_BothRequired(p, path) ==
    IF p.VPC # "" /\ Len(p.Subnets) > 0 THEN
        (IF p.VPC = "" THEN <<Required(Child(path, "vpc"), vpcDetails)>> ELSE <<>>)
        \o (IF Len(p.Subnets) = 0 THEN <<Required(Child(path, "subnets"), vpcDetails)>> ELSE <<>>)
    ELSE <<>>

ValidateVPCConfig(p, path) ==
    IF p.VPC # "" \/ Len(p.Subnets) > 0 THEN
        (IF p.VPC = "" THEN <<Required(Child(path, "vpc"), vpcDetails)>> ELSE <<>>)
        \o (IF Len(p.Subnets) = 0 THEN <<Required(Child(path, "subnets"), vpcDetails)>> ELSE <<>>)
    ELSE <<>>

\* ValidatePlatform, the region block.
regionErrs_NoElse(p, fldPath, shortNames) ==
    (IF p.Region = "" THEN <<Required(Child(fldPath, "region"), "region must be specified")>>
     ELSE <<>>)
    \o (IF p.Region \notin Regions
        THEN <<NotSupported(Child(fldPath, "region"), p.Region, shortNames)>>
        ELSE <<>>)

regionErrs(p, fldPath, shortNames) ==
    IF p.Region = "" THEN <<Required(Child(fldPath, "region"), "region must be specified")>>
    ELSE IF p.Region \notin Regions
         THEN <<NotSupported(Child(fldPath, "region"), p.Region, shortNames)>>
         ELSE <<>>

\* ValidatePlatform, the clusterOSImage block.
clusterOSImageErrs(p, fldPath) ==
    IF p.ClusterOSImage = ""
    THEN <<Required(Child(fldPath, "clusterOSImage"), "clusterOSImage must be specified")>>
    ELSE <<>>

\* ValidatePlatform, the cisInstanceCRN block.
cisInstanceCRNErrs_ParseIgnored(p, fldPath) ==
    IF p.CISInstanceCRN = ""
    THEN <<Required(Child(fldPath, "cisInstanceCRN"), "cisInstanceCRN must be specified")>>
    ELSE <<>>

cisInstanceCRNErrs(p, fldPath) ==
    IF p.CISInstanceCRN = ""
    THEN <<Required(Child(fldPath, "cisInstanceCRN"), "cisInstanceCRN must be specified")>>
    ELSE IF crnParse(p.CISInstanceCRN) # nil
         THEN <<Invalid(Child(fldPath, "cisInstanceCRN"), p.CISInstanceCRN,
                        "cisInstanceCRN is not a valid IBM CRN")>>
         ELSE <<>>

ValidatePlatform_ShortCircuit(p, fldPath, shortNames) ==
    IF regionErrs(p, fldPath, shortNames) # <<>> THEN regionErrs(p, fldPath, shortNames)
    ELSE IF clusterOSImageErrs(p, fldPath) # <<>> THEN clusterOSImageErrs(p, fldPath)
    ELSE IF cisInstanceCRNErrs(p, fldPath) # <<>> THEN cisInstanceCRNErrs(p, fldPath)
    ELSE ValidateVPCConfig(p, fldPath)
         \o (IF ~p.DefaultMachinePlatform.isNil
             THEN ValidateMachinePool(p, p.DefaultMachinePlatform,
                                      Child(fldPath, "defaultMachinePlatform"))
             ELSE <<>>)

ValidatePlatform(p, fldPath, shortNames) ==
    regionErrs(p, fldPath, shortNames)
    \o clusterOSImageErrs(p, fldPath)
    \o cisInstanceCRNErrs(p, fldPath)
    \o ValidateVPCConfig(p, fldPath)
    \o (IF ~p.DefaultMachinePlatform.isNil
        THEN ValidateMachinePool(p, p.DefaultMachinePlatform,
                                 Child(fldPath, "defaultMachinePlatform"))
        ELSE <<>>)

\* ------------------------------------------- asset/installconfig/ibmcloud
\* Each returns the error list and the API calls it made.
validateResourceGroup_GuardInverted(client, config, fieldPath) ==
    IF config.IBMCloud.ResourceGroup = "" THEN
        LET res == GetResourceGroups(client) IN
        IF res.err # nil THEN
            [errs |-> <<InternalError(Child(fieldPath, "resourceGroup"), res.err)>>,
             calls |-> <<"GetResourceGroups">>]
        ELSE IF ~\E i \in 1..Len(res.groups) : res.groups[i].ID = config.IBMCloud.ResourceGroup
        THEN [errs |-> <<Invalid(Child(fieldPath, "resourceGroup"),
                                 config.IBMCloud.ResourceGroup, "invalid resource group ID")>>,
              calls |-> <<"GetResourceGroups">>]
        ELSE [errs |-> <<>>, calls |-> <<"GetResourceGroups">>]
    ELSE [errs |-> <<>>, calls |-> <<>>]

validateResourceGroup_ErrNotReturned(client, config, fieldPath) ==
    IF config.IBMCloud.ResourceGroup # "" THEN
        LET res == GetResourceGroups(client)
            internal == IF res.err # nil
                        THEN <<InternalError(Child(fieldPath, "resourceGroup"), res.err)>>
                        ELSE <<>>
        IN
        IF ~\E i \in 1..Len(res.groups) : res.groups[i].ID = config.IBMCloud.ResourceGroup
        THEN [errs |-> internal \o <<Invalid(Child(fieldPath, "resourceGroup"),
                                 config.IBMCloud.ResourceGroup, "invalid resource group ID")>>,
              calls |-> <<"GetResourceGroups">>]
        ELSE [errs |-> internal, calls |-> <<"GetResourceGroups">>]
    ELSE [errs |-> <<>>, calls |-> <<>>]

validateResourceGroup_ListedFirst(client, config, fieldPath) ==
    LET res == GetResourceGroups(client) IN
    IF config.IBMCloud.ResourceGroup # "" THEN
        IF res.err # nil THEN
            [errs |-> <<InternalError(Child(fieldPath, "resourceGroup"), res.err)>>,
             calls |-> <<"GetResourceGroups">>]
        ELSE IF ~\E i \in 1..Len(res.groups) : res.groups[i].ID = config.IBMCloud.ResourceGroup
        THEN [errs |-> <<Invalid(Child(fieldPath, "resourceGroup"),
                                 config.IBMCloud.ResourceGroup, "invalid resource group ID")>>,
              calls |-> <<"GetResourceGroups">>]
        ELSE [errs |-> <<>>, calls |-> <<"GetResourceGroups">>]
    ELSE [errs |-> <<>>, calls |-> <<"GetResourceGroups">>]

validateResourceGroup(client, config, fieldPath) ==
    IF config.IBMCloud.ResourceGroup # "" THEN
        LET res == GetResourceGroups(client) IN
        IF res.err # nil THEN
            [errs |-> <<InternalError(Child(fieldPath, "resourceGroup"), res.err)>>,
             calls |-> <<"GetResourceGroups">>]
        ELSE IF ~\E i \in 1..Len(res.groups) : res.groups[i].ID = config.IBMCloud.ResourceGroup
        THEN [errs |-> <<Invalid(Child(fieldPath, "resourceGroup"),
                                 config.IBMCloud.ResourceGroup, "invalid resource group ID")>>,
              calls |-> <<"GetResourceGroups">>]
        ELSE [errs |-> <<>>, calls |-> <<"GetResourceGroups">>]
    ELSE [errs |-> <<>>, calls |-> <<>>]

PlatformPath == <<"platform", "ibmcloud">>

\* Validate: the error list it accumulates, the aggregate it returns and
\* the calls it makes.
Validate(client, config) ==
    LET rg == validateResourceGroup(client, config, PlatformPath) IN
    [allErrs |-> rg.errs, ret |-> ToAggregate(rg.errs), calls |-> rg.calls]

\* ------------------------------------------------------------ state machine
NoResult == [isNil |-> TRUE, Errors |-> <<>>]

NoRun == [op |-> "none", allErrs |-> <<>>, ret |-> NoResult, calls |-> <<>>]

NoLookup ==
    [name |-> "none", args |-> <<>>, val |-> nil, err |-> nil, arg |-> "",
     info |-> <<>>, panic |-> FALSE]

Runs == {"run1", "run2"}

Idle == [pc |-> "idle", kind |-> "none", region |-> "", result |-> <<>>, err |-> nil,
         interrupted |-> FALSE]

Fresh ==
    /\ op = "none"
    /\ allErrs = <<>>
    /\ ret = NoResult
    /\ calls = <<>>
    /\ prev = NoRun
    /\ vpcAPI = [serviceURL |-> DefaultServiceURL]
    /\ lookup = NoLookup
    /\ runs = [r \in Runs |-> Idle]
    /\ ctx = "live"

\* One operation on any configuration, the services of the account healthy.
Init ==
    /\ ic \in InstallConfigs
    /\ remote \in Remotes
    /\ regionShortNames \in RegionOrders
    /\ runsLeft = 1
    /\ Fresh

\* One operation on a statically valid configuration, the services of the
\* account in any state.
InitLookups ==
    /\ ic \in LookupConfigs
    /\ remote \in LookupRemotes
    /\ regionShortNames \in RegionOrders
    /\ runsLeft = 1
    /\ Fresh

\* MaxRuns operations in a row on one configuration and one remote state.
InitTwice ==
    /\ ic \in {c \in InstallConfigs :
                /\ Len(c.IBMCloud.Subnets) <= 1
                /\ c.IBMCloud.CISInstanceCRN \in {"", validCRN}}
    /\ remote \in Remotes
    /\ regionShortNames \in RegionOrders
    /\ runsLeft = MaxRuns
    /\ Fresh

\* One operation on a valid platform whose default machine pool may declare
\* a type.
InitPools ==
    /\ ic \in [BaseDomain : {validBaseDomain}, IBMCloud : PoolPlatforms]
    /\ remote \in Remotes
    /\ regionShortNames \in RegionOrders
    /\ runsLeft = 1
    /\ Fresh

\* What every operation does besides computing its result.
Ran(name) ==
    /\ runsLeft > 0
    /\ runsLeft' = runsLeft - 1
    /\ op' = name
    /\ prev' = [op |-> op, allErrs |-> allErrs, ret |-> ret, calls |-> calls]
    /\ UNCHANGED <<vpcAPI, lookup, runs, ctx>>

DoValidate_Accumulates ==
    /\ LET r == Validate(remote, ic) IN
        /\ allErrs' = allErrs \o r.allErrs
        /\ ret' = ToAggregate(allErrs')
        /\ calls' = r.calls
    /\ Ran("Validate")
    /\ UNCHANGED <<ic, remote, regionShortNames>>

DoValidate ==
    /\ LET r == Validate(remote, ic) IN
        /\ allErrs' = r.allErrs
        /\ ret' = r.ret
        /\ calls' = r.calls
    /\ Ran("Validate")
    /\ UNCHANGED <<ic, remote, regionShortNames>>

DoValidatePlatform_DefaultsRegion ==
    /\ allErrs' = ValidatePlatform(ic.IBMCloud, PlatformPath, regionShortNames)
    /\ ret' = NoResult
    /\ calls' = <<>>
    /\ Ran("ValidatePlatform")
    /\ ic' = IF ic.IBMCloud.Region = ""
             THEN [ic EXCEPT !.IBMCloud.Region = "us-south"] ELSE ic
    /\ UNCHANGED <<remote, regionShortNames>>

DoValidatePlatform ==
    /\ allErrs' = ValidatePlatform(ic.IBMCloud, PlatformPath, regionShortNames)
    /\ ret' = NoResult
    /\ calls' = <<>>
    /\ Ran("ValidatePlatform")
    /\ UNCHANGED <<ic, remote, regionShortNames>>

\* ValidatePlatform(p, path).ToAggregate(), as the callers of ValidatePlatform
\* turn its list into one error.
DoValidatePlatformToAggregate ==
    /\ allErrs' = ValidatePlatform(ic.IBMCloud, PlatformPath, regionShortNames)
    /\ ret' = ToAggregate(allErrs')
    /\ calls' = <<>>
    /\ Ran("ValidatePlatformToAggregate")
    /\ UNCHANGED <<ic, remote, regionShortNames>>

DoValidateVPCConfig ==
    /\ allErrs' = ValidateVPCConfig(ic.IBMCloud, PlatformPath)
    /\ ret' = NoResult
    /\ calls' = <<>>
    /\ Ran("ValidateVPCConfig")
    /\ UNCHANGED <<ic, remote, regionShortNames>>

DoValidateMachinePool ==
    /\ ~ic.IBMCloud.DefaultMachinePlatform.isNil
    /\ allErrs' = ValidateMachinePool(ic.IBMCloud, ic.IBMCloud.DefaultMachinePlatform,
                                      Child(PlatformPath, "defaultMachinePlatform"))
    /\ ret' = NoResult
    /\ calls' = <<>>
    /\ Ran("ValidateMachinePool")
    /\ UNCHANGED <<ic, remote, regionShortNames>>

Next ==
    \/ DoValidate
    \/ DoValidatePlatform
    \/ DoValidatePlatformToAggregate
    \/ DoValidateVPCConfig
    \/ DoValidateMachinePool

Spec == Init /\ [][Next]_vars

SpecLookups == InitLookups /\ [][Next]_vars

SpecTwice == InitTwice /\ [][Next]_vars

SpecPools == InitPools /\ [][Next]_vars

\* ------------------------------------------- state machine of the client
\* Calls of the methods of one Client, one after the other.
InitClient ==
    /\ ic = [BaseDomain |-> validBaseDomain,
             IBMCloud |-> [Region |-> "us-south", CISInstanceCRN |-> validCRN,
                           ClusterOSImage |-> "valid-rhcos-image", ResourceGroup |-> "",
                           DefaultMachinePlatform |-> [isNil |-> TRUE], VPC |-> "",
                           VPCResourceGroup |-> "", Subnets |-> <<>>]]
    /\ remote \in ClientRemotes
    /\ regionShortNames = <<"us-south", "us-east", "eu-gb", "eu-de", "jp-tok", "jp-osa",
                            "au-syd", "ca-tor">>
    /\ runsLeft = MaxRuns
    /\ Fresh

\* What every call of a method does besides computing its result: url is
\* the service URL it leaves in the vpcAPI.
Called(name, args, val, err, arg, info, panic, url) ==
    /\ runsLeft > 0
    /\ runsLeft' = runsLeft - 1
    /\ lookup' = [name |-> name, args |-> args, val |-> val, err |-> err, arg |-> arg,
                  info |-> info, panic |-> panic]
    /\ vpcAPI' = [vpcAPI EXCEPT !.serviceURL = url]
    /\ UNCHANGED <<ic, remote, regionShortNames, validationVars, runs, ctx>>

\* The service URL after a search that set the endpoints of the first
\* tried regions of the listing, one after the other.
URLAfter(tried) ==
    IF tried = 0 THEN vpcAPI.serviceURL
    ELSE ServiceURL(Endpoint(remote.regions[tried].name))

DoGetZoneIDByName ==
    \E name \in {validBaseDomain, "notfound.base.domain"} :
        LET res == GetZoneIDByName(remote, validCRN, name) IN
        Called("GetZoneIDByName", <<validCRN, name>>, res.zoneID, res.err, res.arg,
               <<>>, FALSE, vpcAPI.serviceURL)

DoGetResourceGroup ==
    \E nameOrID \in {"rg-id-1", "Default", "not-found"} :
        LET res == GetResourceGroup(remote, nameOrID) IN
        Called("GetResourceGroup", <<nameOrID>>, res.group, res.err, res.arg,
               <<>>, FALSE, vpcAPI.serviceURL)

DoGetResourceGroupFindByName ==
    \E nameOrID \in {"Default", "not-found"} :
        LET res == GetResourceGroupFindByName(remote, nameOrID) IN
        Called("GetResourceGroupFindByName", <<nameOrID>>, res.group, res.err, res.arg,
               <<>>, res.panic, vpcAPI.serviceURL)

DoGetCustomImages ==
    \E region \in {"us-south", "eu-gb"} :
        LET res == GetCustomImages(remote, region) IN
        Called("GetCustomImages", <<region>>, IF res.err = nil THEN "images" ELSE nil,
               res.err, "", [i \in 1..Len(res.images) |-> res.images[i].Name], FALSE,
               IF res.urlSet THEN ServiceURL(Endpoint(region)) ELSE vpcAPI.serviceURL)

DoGetCustomImageByName ==
    \E imageName \in {"valid-rhcos-image", "not-found"}, region \in {"us-south", "eu-gb"} :
        LET res == GetCustomImageByName(remote, imageName, region) IN
        Called("GetCustomImageByName", <<imageName, region>>, res.image, res.err, res.arg,
               <<>>, FALSE,
               IF res.urlSet THEN ServiceURL(Endpoint(region)) ELSE vpcAPI.serviceURL)

DoGetVPC ==
    LET res == GetVPC(remote, validVPCID) IN
    Called("GetVPC", <<validVPCID>>, res.vpc, res.err, res.arg,
           [k \in 1..res.tried |-> remote.regions[k].name], FALSE, URLAfter(res.tried))

DoGetVPCByName ==
    \E vpcName \in {"valid-vpc", "not-found"} :
        LET res == GetVPCByName(remote, vpcName, vpcGroup.ID) IN
        Called("GetVPCByName", <<vpcName, vpcGroup.ID>>, res.vpc, res.err, res.arg,
               [k \in 1..res.tried |-> remote.regions[k].name], FALSE,
               URLAfter(res.tried))

\* GetSubnet and GetVPCZonesForRegion go to the service URL the vpcAPI
\* holds: info records it.
DoGetSubnet ==
    \E subnetID \in SubnetIDs :
        LET res == GetSubnet(remote, subnetID) IN
        Called("GetSubnet", <<subnetID>>, res.zone, res.err, "",
               vpcAPI.serviceURL, FALSE, vpcAPI.serviceURL)

DoGetVPCZonesForRegion ==
    LET res == GetVPCZonesForRegion(remote, "us-south") IN
    Called("GetVPCZonesForRegion", <<"us-south">>, IF res.err = nil THEN "zones" ELSE nil,
           res.err, "", vpcAPI.serviceURL, FALSE, vpcAPI.serviceURL)

\* NewClient: args is the failure of GetSession followed by the loaders
\* that fail, info the loaders that ran.
DoNewClient ==
    \E sessionErr \in {nil, "no api key"}, failing \in SUBSET Range(apisToLoad) :
        LET res == NewClient(sessionErr, failing) IN
        Called("NewClient",
               <<sessionErr>> \o SelectSeq(apisToLoad, LAMBDA a : a \in failing),
               res.client, res.err, "", res.ran, FALSE, vpcAPI.serviceURL)

NextClient ==
    \/ DoGetZoneIDByName
    \/ DoGetResourceGroup
    \/ DoGetResourceGroupFindByName
    \/ DoGetCustomImages
    \/ DoGetCustomImageByName
    \/ DoGetVPC
    \/ DoGetVPCByName
    \/ DoGetSubnet
    \/ DoGetVPCZonesForRegion
    \/ DoNewClient

SpecClient == InitClient /\ [][NextClient]_vars

\* ------------------------------------- state machine of concurrent runs
\* Two goroutines on one Client, each running Validate or GetCustomImages, a
\* step of a run ending where it waits for a remote call or has written the
\* service URL of the shared vpcAPI.  The context of the callers can be
\* cancelled at any moment.
InitRuns ==
    /\ ic \in [BaseDomain : {validBaseDomain},
               IBMCloud : {p \in Platforms :
                              /\ p.Region = "us-south" /\ p.CISInstanceCRN = validCRN
                              /\ p.ClusterOSImage = "valid-rhcos-image"
                              /\ p.ResourceGroup \in {"", "rg-id-1", "not-found"}
                              /\ p.VPC = "" /\ p.VPCResourceGroup = ""
                              /\ p.Subnets = <<>> /\ p.DefaultMachinePlatform.isNil}]
    /\ remote \in RunsRemotes
    /\ regionShortNames = <<"us-south", "us-east", "eu-gb", "eu-de", "jp-tok", "jp-osa",
                            "au-syd", "ca-tor">>
    /\ runsLeft = 0
    /\ Fresh

InFlight(run) == run.pc \in {"GetResourceGroups", "getVPCRegionByName", "ListImages"}

RunStep(r, new) ==
    /\ runs' = [runs EXCEPT ![r] = new]
    /\ UNCHANGED <<ic, remote, regionShortNames, validationVars, runsLeft, lookup, ctx>>

\* What a run of Validate returns: its own error list and the aggregate.
ValidateResult(client, config) ==
    LET v == Validate(client, config) IN
    [result |-> v.allErrs, err |-> IF v.ret.isNil THEN nil ELSE "aggregate"]

\* Validate up to its call of GetResourceGroups, or to its end when the
\* configuration names no resource group.
DoBeginValidate(r) ==
    /\ runs[r].pc = "idle"
    /\ LET res == ValidateResult(remote, ic) IN
       RunStep(r, IF ic.IBMCloud.ResourceGroup # ""
                  THEN [runs[r] EXCEPT !.pc = "GetResourceGroups", !.kind = "Validate"]
                  ELSE [runs[r] EXCEPT !.pc = "done", !.kind = "Validate",
                                       !.result = res.result, !.err = res.err])
    /\ UNCHANGED vpcAPI

\* GetResourceGroups answers, whatever the context of the caller, and
\* Validate runs to its end.
DoEndValidate(r) ==
    /\ runs[r].pc = "GetResourceGroups"
    /\ LET res == ValidateResult(remote, ic) IN
       RunStep(r, [runs[r] EXCEPT !.pc = "done", !.result = res.result, !.err = res.err])
    /\ UNCHANGED vpcAPI

\* GetCustomImages up to its call of getVPCRegionByName.
DoBeginGetCustomImages(r) ==
    \E region \in {"us-south", "eu-gb"} :
        /\ runs[r].pc = "idle"
        /\ RunStep(r, [runs[r] EXCEPT !.pc = "getVPCRegionByName",
                                      !.kind = "GetCustomImages", !.region = region])
        /\ UNCHANGED vpcAPI

\* getVPCRegionByName answers; on success listPrivateImagesForRegion sets the
\* service URL of the vpcAPI to the endpoint of the region.
DoSetServiceURL(r) ==
    /\ runs[r].pc = "getVPCRegionByName"
    /\ LET err == IF ctx = "cancelled" THEN "context canceled" ELSE remote.regionErr IN
       IF err # nil
       THEN /\ RunStep(r, [runs[r] EXCEPT !.pc = "done", !.err = err])
            /\ UNCHANGED vpcAPI
       ELSE /\ RunStep(r, [runs[r] EXCEPT !.pc = "ListImages"])
            /\ vpcAPI' = [vpcAPI EXCEPT !.serviceURL = ServiceURL(Endpoint(runs[r].region))]

\* ListImagesWithContext goes to the service URL the vpcAPI holds now, and
\* GetCustomImages keeps the available images of the answer.
DoListImages(r) ==
    /\ runs[r].pc = "ListImages"
    /\ LET at == CHOOSE n \in DOMAIN remote.imagesIn :
                     ServiceURL(Endpoint(n)) = vpcAPI.serviceURL
           res == GetCustomImages([remote EXCEPT !.images = remote.imagesIn[at]],
                                  runs[r].region)
           err == IF ctx = "cancelled" THEN "context canceled" ELSE res.err
       IN RunStep(r, [runs[r] EXCEPT
                         !.pc = "done", !.err = err,
                         !.result = IF err # nil THEN <<>>
                                    ELSE [i \in 1..Len(res.images) |-> res.images[i].Name]])
    /\ UNCHANGED vpcAPI

\* The context of the callers is cancelled or times out: the runs waiting
\* for a remote call are interrupted.
DoCancel ==
    /\ ctx = "live"
    /\ ctx' = "cancelled"
    /\ runs' = [r \in Runs |-> [runs[r] EXCEPT !.interrupted = InFlight(runs[r])]]
    /\ UNCHANGED <<ic, remote, regionShortNames, validationVars, runsLeft, lookup, vpcAPI>>

NextRuns ==
    \/ \E r \in Runs : DoBeginValidate(r)
    \/ \E r \in Runs : DoEndValidate(r)
    \/ \E r \in Runs : DoBeginGetCustomImages(r)
    \/ \E r \in Runs : DoSetServiceURL(r)
    \/ \E r \in Runs : DoListImages(r)
    \/ DoCancel

SpecRuns == InitRuns /\ [][NextRuns]_vars

TypeOK ==
    /\ ic.IBMCloud \in Platforms \cup PoolPlatforms
    /\ remote \in Remotes \cup LookupRemotes \cup ClientRemotes \cup RunsRemotes
    /\ op \in {"none", "Validate", "ValidatePlatform", "ValidatePlatformToAggregate",
               "ValidateVPCConfig", "ValidateMachinePool"}
    /\ runsLeft \in 0..MaxRuns
    /\ ctx \in {"live", "cancelled"}
    /\ lookup.panic \in BOOLEAN

\* ------------------------------------------------------------------ claims
ErrsAt(list, path) == SelectSeq(list, LAMBDA e : e.Field = path)

resourceGroupPath == Child(PlatformPath, "resourceGroup")

GroupListed(r, nameOrID) ==
    \E i \in 1..Len(r.groups) : r.groups[i].ID = nameOrID \/ r.groups[i].Name = nameOrID

RegionPasses(p) == p.Region \in Regions
CISInstanceCRNPasses(p) == p.CISInstanceCRN # "" /\ crnParse(p.CISInstanceCRN) = nil
ClusterOSImagePasses(p) == p.ClusterOSImage # ""
ResourceGroupPasses(p, r) ==
    p.ResourceGroup = "" \/ (r.listErr = nil /\ GroupListed(r, p.ResourceGroup))
VPCPasses(p) == (p.VPC = "") <=> (Len(p.Subnets) = 0)

FieldsPass(p, r) ==
    /\ RegionPasses(p)
    /\ CISInstanceCRNPasses(p)
    /\ ClusterOSImagePasses(p)
    /\ ResourceGroupPasses(p, r)
    /\ VPCPasses(p)

\* C1 (as claimed): Validate returns nil if and only if every configured
\* field passes its checks (region, CIS instance CRN, cluster OS image,
\* resource group, VPC/subnets, machine pools).
C1_Claim ==
    op = "Validate" => (ret.isNil <=> FieldsPass(ic.IBMCloud, remote))

FullyValid(p) ==
    /\ RegionPasses(p)
    /\ CISInstanceCRNPasses(p)
    /\ ClusterOSImagePasses(p)
    /\ p.ResourceGroup = ""
    /\ \/ p.VPC = "" /\ p.VPCResourceGroup = "" /\ Len(p.Subnets) = 0
       \/ /\ p.VPC # "" /\ p.VPCResourceGroup # "" /\ Len(p.Subnets) > 0
          /\ "subnet-invalid-zone" \notin Range(p.Subnets)

\* C2: a fully valid configuration (supported region, well-formed CIS
\* instance CRN, cluster OS image, no resource group, machine pools without
\* fields), without VPC and subnets or with a valid VPC, VPC resource group
\* and subnets, makes Validate return nil.
C2_Theorem ==
    (op = "Validate" /\ FullyValid(ic.IBMCloud)) => (ret.isNil /\ allErrs = <<>>)

C2_Witness ==
    /\ op = "Validate"
    /\ FullyValid(ic.IBMCloud)
    /\ ic.IBMCloud.VPC # ""
    /\ Len(remote.groups) > 0
    /\ ret.isNil

CoRequirementErrs(list) ==
    SelectSeq(list, LAMBDA e : e.Field \in {Child(PlatformPath, "vpc"),
                                            Child(PlatformPath, "subnets")})

\* C3: when exactly one of VPC and Subnets is non-empty the co-requirement
\* check reports exactly one Required error, at the path of the empty side;
\* when both or neither are set it reports nothing; no remote lookup is made.
C3_Theorem ==
    op \in {"ValidateVPCConfig", "ValidatePlatform"} =>
        LET p == ic.IBMCloud
            co == CoRequirementErrs(allErrs)
        IN
        /\ calls = <<>>
        /\ (op = "ValidateVPCConfig" => co = allErrs)
        /\ (p.VPC = "" /\ Len(p.Subnets) > 0) =>
              (Len(co) = 1 /\ co[1].Type = "Required"
               /\ co[1].Field = Child(PlatformPath, "vpc"))
        /\ (p.VPC # "" /\ Len(p.Subnets) = 0) =>
              (Len(co) = 1 /\ co[1].Type = "Required"
               /\ co[1].Field = Child(PlatformPath, "subnets"))
        /\ ((p.VPC = "") <=> (Len(p.Subnets) = 0)) => co = <<>>

C3_Witness ==
    /\ op = "ValidateVPCConfig"
    /\ ic.IBMCloud.VPC = ""
    /\ Len(ic.IBMCloud.Subnets) = 2
    /\ remote.listErr # nil
    /\ Len(allErrs) = 1
    /\ allErrs[1].Field = Child(PlatformPath, "vpc")

VPCAllSet(p) == p.VPC # "" /\ Len(p.Subnets) > 0 /\ p.VPCResourceGroup # ""
VPCAllEmpty(p) == p.VPC = "" /\ Len(p.Subnets) = 0 /\ p.VPCResourceGroup = ""

\* C4 (as claimed): with region, cisInstanceCRN and clusterOSImage valid,
\* ValidatePlatform returns no error exactly when VPC, Subnets and
\* VPCResourceGroup are all set or all empty.
C4_Claim ==
    (/\ op = "ValidatePlatform"
     /\ RegionPasses(ic.IBMCloud)
     /\ CISInstanceCRNPasses(ic.IBMCloud)
     /\ ClusterOSImagePasses(ic.IBMCloud))
    => ((allErrs = <<>>) <=> (VPCAllSet(ic.IBMCloud) \/ VPCAllEmpty(ic.IBMCloud)))

\* C5: the region check yields Required at path region for an empty region,
\* NotSupported at path region with the region as value for a non-empty
\* region outside the Regions map, nothing for a key of the map, and never
\* more than one error.
C5_Theorem ==
    op = "ValidatePlatform" =>
        LET p == ic.IBMCloud
            r == ErrsAt(allErrs, Child(PlatformPath, "region"))
        IN
        /\ p.Region = "" => (Len(r) = 1 /\ r[1].Type = "Required")
        /\ (p.Region # "" /\ p.Region \notin Regions) =>
              (Len(r) = 1 /\ r[1].Type = "NotSupported" /\ r[1].BadValue = p.Region)
        /\ p.Region \in Regions => r = <<>>

C5_Witness ==
    /\ op = "ValidatePlatform"
    /\ ic.IBMCloud.Region = "invalid"
    /\ \E i \in 1..Len(allErrs) :
          /\ allErrs[i].Type = "NotSupported"
          /\ allErrs[i].Field = Child(PlatformPath, "region")
          /\ allErrs[i].BadValue = "invalid"

\* C6: ValidatePlatform reports Required at cisInstanceCRN for an empty CRN,
\* Invalid at cisInstanceCRN with the value for a CRN that does not parse,
\* Required at clusterOSImage for an empty image; each of the two fields
\* yields at most one error and a well-formed value yields none.
C6_Theorem ==
    op = "ValidatePlatform" =>
        LET p == ic.IBMCloud
            c == ErrsAt(allErrs, Child(PlatformPath, "cisInstanceCRN"))
            i == ErrsAt(allErrs, Child(PlatformPath, "clusterOSImage"))
        IN
        /\ p.CISInstanceCRN = "" => (Len(c) = 1 /\ c[1].Type = "Required")
        /\ (p.CISInstanceCRN # "" /\ crnParse(p.CISInstanceCRN) # nil) =>
              (Len(c) = 1 /\ c[1].Type = "Invalid" /\ c[1].BadValue = p.CISInstanceCRN)
        /\ (p.CISInstanceCRN # "" /\ crnParse(p.CISInstanceCRN) = nil) => c = <<>>
        /\ p.ClusterOSImage = "" => (Len(i) = 1 /\ i[1].Type = "Required")
        /\ p.ClusterOSImage # "" => i = <<>>

C6_Witness ==
    /\ op = "ValidatePlatform"
    /\ ic.IBMCloud.CISInstanceCRN = "malformed:crn"
    /\ ic.IBMCloud.ClusterOSImage = ""
    /\ \E i \in 1..Len(allErrs) :
          /\ allErrs[i].Type = "Invalid"
          /\ allErrs[i].Field = Child(PlatformPath, "cisInstanceCRN")
          /\ allErrs[i].BadValue = "malformed:crn"

\* C7 (as claimed): a configured resource group that matches neither the ID
\* nor the name of a group of a successful listing yields a NotFound error
\* at the resource-group path whose value is the identifier.
C7_Claim ==
    (/\ op = "Validate"
     /\ ic.IBMCloud.ResourceGroup # ""
     /\ remote.listErr = nil
     /\ ~GroupListed(remote, ic.IBMCloud.ResourceGroup))
    => \E i \in 1..Len(allErrs) :
          /\ allErrs[i].Type = "NotFound"
          /\ allErrs[i].Field = resourceGroupPath
          /\ allErrs[i].BadValue = ic.IBMCloud.ResourceGroup

\* C8 (as claimed): a configured resource group is accepted (no error at the
\* resource-group path) exactly when a listed group has that ID or that name.
C8_Claim ==
    (/\ op = "Validate"
     /\ ic.IBMCloud.ResourceGroup # ""
     /\ remote.listErr = nil)
    => ((ErrsAt(allErrs, resourceGroupPath) = <<>>)
            <=> GroupListed(remote, ic.IBMCloud.ResourceGroup))

\* C9: when a resource group is configured and the listing call fails, the
\* result holds exactly one error for the resource group, an InternalError
\* at the resource-group path, and no NotFound or Invalid error.
C9_Theorem ==
    (/\ op = "Validate"
     /\ ic.IBMCloud.ResourceGroup # ""
     /\ remote.listErr # nil)
    => /\ Len(allErrs) = 1
       /\ allErrs[1].Type = "InternalError"
       /\ allErrs[1].Field = resourceGroupPath
       /\ ~ret.isNil
       /\ ret.Errors = allErrs

C9_Witness ==
    /\ op = "Validate"
    /\ ic.IBMCloud.ResourceGroup = "rg-id-1"
    /\ remote.listErr = "transport"
    /\ allErrs = <<InternalError(resourceGroupPath, "transport")>>

\* C10: when no resource group is configured the resource-group validator
\* makes no remote call and adds no error, whatever the remote state.
C10_Theorem ==
    (op = "Validate" /\ ic.IBMCloud.ResourceGroup = "")
    => /\ calls = <<>>
       /\ ErrsAt(allErrs, resourceGroupPath) = <<>>

C10_Witness ==
    /\ op = "Validate"
    /\ ic.IBMCloud.ResourceGroup = ""
    /\ remote.listErr = "bmxerror"
    /\ calls = <<>>
    /\ allErrs = <<>>


\* ---------------------------------------------- claims on the remote checks
cisInstanceCRNPath == Child(PlatformPath, "cisInstanceCRN")
clusterOSImagePath == Child(PlatformPath, "clusterOSImage")
vpcPath == Child(PlatformPath, "vpc")
vpcResourceGroupPath == Child(PlatformPath, "vpcResourceGroup")
subnetsPath == Child(PlatformPath, "subnets")

HasErr(list, type, path, value) ==
    \E i \in 1..Len(list) :
        list[i].Type = type /\ list[i].Field = path /\ list[i].BadValue = value

\* C11 (as claimed): if the CIS instance lookup for the configured CRN fails,
\* Validate reports NotFound at cisInstanceCRN with the CRN as value, never
\* calls the zone-by-name lookup, and reports nothing else at cisInstanceCRN.
C11_Claim ==
    (/\ op = "Validate"
     /\ GetCISInstance(remote, ic.IBMCloud.CISInstanceCRN).err # nil)
    => /\ HasErr(allErrs, "NotFound", cisInstanceCRNPath, ic.IBMCloud.CISInstanceCRN)
       /\ "GetZoneIDByName" \notin Range(calls)
       /\ Len(ErrsAt(allErrs, cisInstanceCRNPath)) = 1

\* C12 (as claimed): if the CIS instance resolves but the zone lookup for the
\* base domain fails or returns an empty zone ID, Validate reports Invalid at
\* cisInstanceCRN with the CRN as value and a detail naming the base domain.
C12_Claim ==
    (/\ op = "Validate"
     /\ GetCISInstance(remote, ic.IBMCloud.CISInstanceCRN).err = nil
     /\ LET z == GetZoneIDByName(remote, ic.IBMCloud.CISInstanceCRN, ic.BaseDomain) IN
        z.err # nil \/ z.zoneID = "")
    => \E i \in 1..Len(allErrs) :
          /\ allErrs[i].Type = "Invalid"
          /\ allErrs[i].Field = cisInstanceCRNPath
          /\ allErrs[i].BadValue = ic.IBMCloud.CISInstanceCRN
          /\ ic.BaseDomain \in Range(allErrs[i].Detail)

\* C13 (as claimed): if the custom-image lookup for ClusterOSImage returns no
\* image, because the image is absent or because the lookup failed, Validate
\* reports NotFound at clusterOSImage with the image name as value and no
\* InternalError at that path.
C13_Claim ==
    (/\ op = "Validate"
     /\ GetCustomImageByName(remote, ic.IBMCloud.ClusterOSImage, ic.IBMCloud.Region).image = nil)
    => /\ HasErr(allErrs, "NotFound", clusterOSImagePath, ic.IBMCloud.ClusterOSImage)
       /\ \A i \in 1..Len(allErrs) :
             allErrs[i].Field = clusterOSImagePath => allErrs[i].Type # "InternalError"

\* The resource group of the VPC and, when it resolved, the VPC looked up in it.
VPCGroupLookup(r, p) == GetResourceGroup(r, p.VPCResourceGroup)
VPCLookup(r, p) == GetVPCByName(r, p.VPC, VPCGroupLookup(r, p).group)

\* C14 (as claimed): with a VPC configured, a VPC resource group lookup that
\* fails with the not-found sentinel yields NotFound at vpcResourceGroup and
\* any other failure of it InternalError there; a VPC lookup that fails with
\* the not-found sentinel yields NotFound at vpc with the VPC name as value
\* and any other failure of it InternalError at vpc.
C14_Claim ==
    (op = "Validate" /\ ic.IBMCloud.VPC # "")
    => LET p == ic.IBMCloud
           g == VPCGroupLookup(remote, p)
           v == VPCLookup(remote, p)
       IN
       /\ g.err = "Resource Group not found"
             => HasErr(allErrs, "NotFound", vpcResourceGroupPath, p.VPCResourceGroup)
       /\ g.err \notin {nil, "Resource Group not found"}
             => HasErr(allErrs, "InternalError", vpcResourceGroupPath, nil)
       /\ (g.err = nil /\ v.err = "vpc not found")
             => HasErr(allErrs, "NotFound", vpcPath, p.VPC)
       /\ (g.err = nil /\ v.err \notin {nil, "vpc not found"})
             => HasErr(allErrs, "InternalError", vpcPath, nil)

\* The subnets of the configuration whose zone is not a zone of its region.
SubnetsOutOfRegion(r, p) ==
    {i \in 1..Len(p.Subnets) :
        LET s == GetSubnet(r, p.Subnets[i])
            z == GetVPCZonesForRegion(r, p.Region)
        IN s.err = nil /\ z.err = nil /\ s.zone \notin Range(z.zones)}

\* C15 (as claimed): every configured subnet is validated whatever the VPC
\* lookup gave: a run with an unresolvable VPC and a subnet in an invalid
\* zone reports both the VPC error and the subnet error.
C15_Claim ==
    (/\ op = "Validate"
     /\ ic.IBMCloud.VPC # ""
     /\ VPCGroupLookup(remote, ic.IBMCloud).err = nil
     /\ VPCLookup(remote, ic.IBMCloud).err # nil
     /\ SubnetsOutOfRegion(remote, ic.IBMCloud) # {})
    => /\ ErrsAt(allErrs, vpcPath) # <<>>
       /\ ErrsAt(allErrs, subnetsPath) # <<>>

\* C16 (as claimed): for every configured subnet whose zone is not among the
\* valid zones of the region, Validate reports Invalid at subnets with the
\* subnet ID as value and a detail listing all valid zones of the region in
\* sorted order; a subnet whose zone is valid produces no error.
C16_Claim ==
    op = "Validate"
    => LET p == ic.IBMCloud
           zones == GetVPCZonesForRegion(remote, p.Region).zones
           bad == SubnetsOutOfRegion(remote, p)
       IN
       /\ \A i \in bad :
             \E k \in 1..Len(allErrs) :
                /\ allErrs[k].Type = "Invalid"
                /\ allErrs[k].Field = subnetsPath
                /\ allErrs[k].BadValue = p.Subnets[i]
                /\ \E n \in 1..Len(allErrs[k].Detail) :
                      SubSeq(allErrs[k].Detail, n, n + Len(zones) - 1) = zones
       /\ \A k \in 1..Len(allErrs) :
             allErrs[k].Field = subnetsPath
                => \E i \in bad : allErrs[k].BadValue = p.Subnets[i]


\* ------------------------------------------- claims on the whole result
Count(b) == IF b THEN 1 ELSE 0

\* C17: ValidatePlatform does not stop at the first defect: each of the
\* region, clusterOSImage, cisInstanceCRN and VPC/subnets checks that fails
\* has its error in the result, and the number of errors is the number of
\* failing checks (each check produces one error alone).
C17_Theorem ==
    op = "ValidatePlatform" =>
        LET p == ic.IBMCloud IN
        /\ ~RegionPasses(p) => ErrsAt(allErrs, Child(PlatformPath, "region")) # <<>>
        /\ ~ClusterOSImagePasses(p) => ErrsAt(allErrs, clusterOSImagePath) # <<>>
        /\ ~CISInstanceCRNPasses(p) => ErrsAt(allErrs, cisInstanceCRNPath) # <<>>
        /\ ~VPCPasses(p) => CoRequirementErrs(allErrs) # <<>>
        /\ Len(allErrs) = Count(~RegionPasses(p)) + Count(~ClusterOSImagePasses(p))
                          + Count(~CISInstanceCRNPasses(p)) + Count(~VPCPasses(p))

C17_Witness ==
    /\ op = "ValidatePlatform"
    /\ ic.IBMCloud.Region = ""
    /\ ic.IBMCloud.ClusterOSImage = ""
    /\ ic.IBMCloud.CISInstanceCRN = "malformed:crn"
    /\ ic.IBMCloud.VPC # ""
    /\ Len(ic.IBMCloud.Subnets) = 0
    /\ Len(allErrs) = 4

\* The position of a path in the order in which ValidatePlatform appends.
AppendRank(path) ==
    CASE path = Child(PlatformPath, "region") -> 1
      [] path = clusterOSImagePath -> 2
      [] path = cisInstanceCRNPath -> 3
      [] path \in {vpcPath, subnetsPath} -> 4
      [] OTHER -> 5

UnderPath(e, path) ==
    Len(e.Field) >= Len(path) /\ SubSeq(e.Field, 1, Len(path)) = path

\* C20: the machine pool validator reports nothing for a machine pool with no
\* field set, and ValidatePlatform reports nothing under
\* defaultMachinePlatform, whether the platform declares a default machine
\* pool (an empty one) or not.
C20_Theorem ==
    /\ op = "ValidateMachinePool" => allErrs = <<>>
    /\ op = "ValidatePlatform" =>
          \A i \in 1..Len(allErrs) :
              ~UnderPath(allErrs[i], Child(PlatformPath, "defaultMachinePlatform"))

C20_Witness ==
    /\ op = "ValidateMachinePool"
    /\ ~ic.IBMCloud.DefaultMachinePlatform.isNil
    /\ allErrs = <<>>
    /\ calls = <<>>


\* --------------------------------------- claims on machine types and inputs
\* The names of the provider's profile catalog.
ProfileCatalog == {"bx2-4x16"}

typePath == Child(Child(PlatformPath, "defaultMachinePlatform"), "type")

\* C21 (as claimed): a machine pool that declares a Type outside the
\* provider's profile catalog gets NotFound at the pool's type path, and a
\* pool whose declared type is in the catalog gets no error.
C21_Claim ==
    op \in {"ValidateMachinePool", "ValidatePlatform"} =>
        LET mp == ic.IBMCloud.DefaultMachinePlatform IN
        /\ (mp.Type # "" /\ mp.Type \notin ProfileCatalog)
              => HasErr(allErrs, "NotFound", typePath, mp.Type)
        /\ mp.Type \in ProfileCatalog
              => \A i \in 1..Len(allErrs) : allErrs[i].Field # typePath

\* C22: no operation modifies its input: the install configuration (region,
\* CRN, image, resource group, VPC, subnets, machine pool) after Validate,
\* ValidatePlatform and the other validators is the one before, whether the
\* operation reported errors or not.
C22_Theorem == [][ic' = ic]_vars

C22_Witness ==
    /\ op = "ValidatePlatform"
    /\ ic.IBMCloud.Region = ""
    /\ Len(ic.IBMCloud.Subnets) = 2
    /\ Len(allErrs) >= 2


\* ------------------------------------------- claims on concurrent runs
\* What a run of GetCustomImages returns on a Client nothing else uses.
AloneGetCustomImages(region) ==
    LET res == GetCustomImages([remote EXCEPT !.images = remote.imagesIn[region]], region)
    IN [result |-> [i \in 1..Len(res.images) |-> res.images[i].Name], err |-> res.err]

\* C23 (as claimed): a run of Validate that was waiting for its lookup when
\* the context was cancelled reports an InternalError for the interrupted
\* check and never reports it as passing.
C23_Claim ==
    \A r \in Runs :
        (runs[r].kind = "Validate" /\ runs[r].pc = "done" /\ runs[r].interrupted)
            => \E i \in 1..Len(runs[r].result) : runs[r].result[i].Type = "InternalError"

Kept(val, err) == (val # nil /\ err = nil) \/ (val = nil /\ err # nil)

\* What the remote state holds, whatever the lookups make of it.
ZoneActive(r, name) ==
    \E i \in 1..Len(r.zones) : r.zones[i].Name = name /\ r.zones[i].Status = "active"
ImageAvailable(r, name) ==
    \E i \in 1..Len(r.images) : r.images[i].Name = name /\ r.images[i].Status = "available"
RegionFailed(r, method) ==
    \E k \in 1..Len(r.regions) :
        IF method = "GetVPC" THEN r.regions[k].getVPC.err \notin {nil, "VPC not found"}
        ELSE r.regions[k].err # nil

C26_Theorem ==
    lookup.name = "GetZoneIDByName" =>
        LET n == lookup.args[2]
            zones == remote.zones
            matching == {i \in 1..Len(zones) : zones[i].Name = n /\ zones[i].Status = "active"}
        IN
        IF remote.zonesErr # nil
        THEN lookup.val = "" /\ lookup.err = remote.zonesErr
        ELSE IF matching = {}
        THEN lookup.val = "" /\ lookup.err = "zone not found" /\ lookup.arg = n
        ELSE /\ lookup.err = nil
             /\ lookup.val = zones[CHOOSE i \in matching : \A j \in matching : i <= j].Id

C26_Witness ==
    /\ lookup.name = "GetZoneIDByName"
    /\ remote.zones = <<pendingZone, secondZone>>
    /\ lookup.args[2] = validBaseDomain
    /\ lookup.val = "second-zone-id"

\* The first region of the listing whose answer ends the search of GetVPC
\* (a VPC, or a failure other than "VPC not found"); 0 when none does.
FirstStop(r) ==
    LET stops == {k \in 1..Len(r.regions) :
                     \/ r.regions[k].getVPC.err \notin {nil, "VPC not found"}
                     \/ r.regions[k].getVPC.err = nil /\ r.regions[k].getVPC.vpc # nil}
    IN IF stops = {} THEN 0 ELSE CHOOSE k \in stops : \A j \in stops : k <= j

\* C27: GetVPC asks the regions in listing order; an answer "VPC not found"
\* makes it go on to the next region, any other failure ends the search with
\* that failure, the first VPC returned ends it with that VPC, and only when
\* no region ended the search does it return the not-found error naming the
\* VPC ID.
C27_Theorem ==
    (lookup.name = "GetVPC" /\ remote.regionsErr = nil) =>
        LET regs == remote.regions
            f == FirstStop(remote)
        IN
        IF f = 0
        THEN /\ lookup.val = nil /\ lookup.err = "vpc not found"
             /\ lookup.arg = lookup.args[1]
             /\ lookup.info = [k \in 1..Len(regs) |-> regs[k].name]
        ELSE /\ lookup.info = [k \in 1..f |-> regs[k].name]
             /\ lookup.val = regs[f].getVPC.vpc
             /\ lookup.err = regs[f].getVPC.err

C27_Witness ==
    /\ lookup.name = "GetVPC"
    /\ Len(remote.regions) = 2
    /\ remote.regions[1].getVPC.err = "VPC not found"
    /\ remote.regions[2].getVPC.vpc = validVPCID
    /\ lookup.val = validVPCID
    /\ lookup.info = <<"us-south", "eu-gb">>

\* C28: NewClient returns a client exactly when GetSession and all four
\* loaders succeed, and otherwise no client and an error; the loaders run in
\* the order resource management, resource controller, internet services,
\* VPC, and none runs after the first that fails, nor after a failed
\* GetSession.
C28_Theorem ==
    lookup.name = "NewClient" =>
        LET sessionErr == lookup.args[1]
            failing == Range(Tail(lookup.args))
            ran == lookup.info
        IN
        /\ Kept(lookup.val, lookup.err)
        /\ lookup.val # nil <=> (sessionErr = nil /\ failing = {})
        /\ ran = SubSeq(apisToLoad, 1, Len(ran))
        /\ sessionErr # nil => ran = <<>>
        /\ \A k \in 1..Len(ran) : ran[k] \in failing => k = Len(ran)
        /\ (sessionErr = nil /\ failing # {}) => ran[Len(ran)] \in failing
        /\ (sessionErr = nil /\ failing = {}) => ran = apisToLoad

C28_Witness ==
    /\ lookup.name = "NewClient"
    /\ lookup.args = <<nil, "loadResourceControllerAPI", "loadVPCV1API">>
    /\ lookup.info = <<"loadResourceManagementAPI", "loadResourceControllerAPI">>
    /\ lookup.val = nil

\* C29 (as claimed): GetVPC, GetVPCByName, GetCustomImages and
\* GetCustomImageByName leave the service URL of the vpcAPI as it was before
\* the call, whether they return a result or an error.
C29_Claim ==
    [][lookup'.name \in {"GetVPC", "GetVPCByName", "GetCustomImages", "GetCustomImageByName"}
          => vpcAPI'.serviceURL = vpcAPI.serviceURL]_vars

\* C30 (as claimed): GetResourceGroup, in either version, returns a group
\* and no error, or no group and an error, and never indexes an empty list.
C30_Claim ==
    lookup.name \in {"GetResourceGroup", "GetResourceGroupFindByName"}
        => ~lookup.panic /\ Kept(lookup.val, lookup.err)

====
